---- MODULE Spec2Model ----
(***************************************************************************)
(* Model of app.py: the segmentation / transcription / merge / selection / *)
(* clip-extraction pipeline.                                               *)
(*                                                                         *)
(* Times are integers counting tenths of a second, so that the fractional  *)
(* stamps of the demo fixtures (5.5 s, 120.5 s) are exact: 15 minutes is   *)
(* 9000, 30 seconds is 300.  A Python dict is a function from key strings  *)
(* to values, None is the record NoneValue, a list is a sequence.          *)
(***************************************************************************)
EXTENDS Integers, Sequences, FiniteSets, TLC

\* ---------------------------------------------------------------- bounds

\* most windows an asset of the pipeline is long enough to need
MaxWindows == 3
\* largest segment_length, and a third of the largest duration, that the
\* segmenter is applied to on its own
MaxSegmentLength == 4
\* most chunk transcripts handed to one merge
MaxChunks == 3
\* most segments in all the chunks of one merge together
MaxSegs == 2
\* largest chunk-local start and largest declared duration of a merge
MaxTime == 2

\* most candidates the reasoning service returns
MaxClips == 2
\* largest width and height of a source frame, counted in steps of 120 pixels
MaxFrame == 16
\* most files in the input folder
MaxAssets == 2

\* ------------------------------------------------------ program constants

\* split_audio's default segment_length, 15 * 60 seconds, also hard-coded
\* in transcribe_video
SegmentLength == 9000
\* the minimum highlight duration, 30 seconds, stated in the prompt
MinHighlight == 300

\* ---------------------------------------------------------------- values

NoneValue == [none |-> TRUE]

EmptyDict == [k \in {} |-> 0]

\* dict.get(key, default)
Get(d, key, default) == IF key \in DOMAIN d THEN d[key] ELSE default

Min(a, b) == IF a <= b THEN a ELSE b

Max(a, b) == IF a >= b THEN a ELSE b

\* int(np.ceil(a / b)) for b # 0 (\div rounds down; a / 0 raises)
CeilDiv(a, b) == IF b > 0 THEN -((-a) \div b) ELSE -(a \div (-b))

RECURSIVE Sum(_)
Sum(s) == IF s = <<>> THEN 0 ELSE Head(s) + Sum(Tail(s))

\* s[1..n]
Prefix(s, n) == SubSeq(s, 1, n)

Range(s) == {s[k] : k \in DOMAIN s}

\* the metadata file before it is written, and with a list dumped to it
NoMetadata == [exists |-> FALSE]

MetadataFile(content) == [exists |-> TRUE, content |-> content]

\* the paths of lines 421, 507 and 524 inside the output folder
ClipFile(i, ext) == [base |-> "viral_clip", index |-> i, ext |-> ext]

MetadataPath == [base |-> "viral_clips_metadata", index |-> 0, ext |-> ".json"]

\* the output folder after `owner` has written the file `path`: a file of
\* that path already there is replaced
WriteFile(dir, path, owner) ==
    { f \in dir : f.path # path } \cup { [path |-> path, owner |-> owner] }

\* response before the reasoning service has been called
NoReply == [kind |-> "none"]

\* ----------------------------------------------------------- reprojection

\* the height of line 504 and the width of line 506
TargetHeight == 1920

TargetWidth == 1080

\* int(n / 2): Python's int() rounds toward zero
IntHalf(n) == IF n >= 0 THEN n \div 2 ELSE -((-n) \div 2)

\* the length of the slice [lo:hi] of an axis of n pixels: a negative bound
\* counts from the end, and bounds outside the axis are clipped to it
SliceLength(n, lo, hi) ==
    Max(0, (IF hi < 0 THEN Max(n + hi, 0) ELSE Min(hi, n))
           - (IF lo < 0 THEN Max(n + lo, 0) ELSE Min(lo, n)))

\* the width patched_resize computes for a clip of w x h and a height:
\* int(clip.w * height / clip.h), line 450
ResizedWidth(w, h, height) == (w * height) \div h

\* the width of clip.crop(x_center=clip.w/2, width=width), line 506, for a
\* clip w wide: the library keeps the columns int(x1):int(x2) of each frame
\* with x1 = w/2 - width/2 and x2 = w/2 + width/2, and checks nothing
CroppedWidth(w, width) == SliceLength(w, IntHalf(w - width), IntHalf(w + width))

\* (width, height) of the clip lines 504-506 make of a source of w x h
Reprojected(w, h) ==
    << CroppedWidth(ResizedWidth(w, h, TargetHeight), TargetWidth), TargetHeight >>

\* ------------------------------------------------------------ split_audio

\* the names of the temporary audio files
TempFull == [kind |-> "full", index |-> 0]

TempSegment(i) == [kind |-> "segment", index |-> i]

\* number of temporary files split_audio sets out to write
NumSegments(duration, segment_length) ==
    IF duration <= segment_length THEN 1 ELSE CeilDiv(duration, segment_length)

\* SplitWindows without the min() of line 65: the last window runs a whole
\* segment_length, past the end of the asset
SplitWindowsNoClamp(duration, segment_length) ==
    IF duration <= segment_length
    THEN << [start |-> 0, end |-> duration] >>
    ELSE [k \in 1..NumSegments(duration, segment_length) |->
            [start |-> (k - 1) * segment_length, end |-> k * segment_length]]

\* line 60 divides by a segment_length of zero: ZeroDivisionError
DivisionRaises(duration, segment_length) ==
    duration > segment_length /\ segment_length = 0

\* how many files split_audio may have written when it raises: none when the
\* asset cannot be opened or line 60 raises, else any number short of all
FilesBeforeRaise(canOpen, duration, segment_length) ==
    IF canOpen /\ ~DivisionRaises(duration, segment_length)
    THEN {0} \cup 1..(NumSegments(duration, segment_length) - 1)
    ELSE {0}

\* the (start_time, end_time) of the audio written to each file, in order
SplitWindows(duration, segment_length) ==
    IF duration <= segment_length
    THEN << [start |-> 0, end |-> duration] >>
    ELSE [k \in 1..NumSegments(duration, segment_length) |->
            [start |-> (k - 1) * segment_length,
             end   |-> Min(k * segment_length, duration)]]

\* the list of paths split_audio returns when nothing raises
SplitNames(duration, segment_length) ==
    IF duration <= segment_length
    THEN << TempFull >>
    ELSE [k \in 1..NumSegments(duration, segment_length) |-> TempSegment(k - 1)]

\* the segment_durations list transcribe_video recomputes for n files
SegmentDurations(n, total_duration) ==
    [k \in 1..n |->
        Min(k * SegmentLength, total_duration) - (k - 1) * SegmentLength]

\* ---------------------------------------------- merge_transcript_segments

SegmentsOf(transcript) == Get(transcript, "segments", <<>>)

RECURSIVE Concat(_)
Concat(ss) == IF ss = <<>> THEN <<>> ELSE Head(ss) \o Concat(Tail(ss))

\* MergeOffset with line 131 moved before the loop over the segments: chunk i
\* is shifted by its own declared duration as well
MergeOffsetInclusive(segment_lengths, i) == Sum(Prefix(segment_lengths, i))

\* MergeOffset without line 131: the offset never advances
MergeOffsetNone(segment_lengths, i) == 0

\* current_offset when chunk i (1-based) is processed: lines 106 and 131
MergeOffset(segment_lengths, i) == Sum(Prefix(segment_lengths, i - 1))

\* NewSegmentId without line 117: the segment keeps its chunk-local id
NewSegmentIdLocal(transcript_segments, i, j) ==
    SegmentsOf(transcript_segments[i])[j].id

\* segment_id when segment j of chunk i is processed: lines 107 and 128
NewSegmentId(transcript_segments, i, j) ==
    Sum([k \in 1..(i - 1) |-> Len(SegmentsOf(transcript_segments[k]))]) + j - 1

\* the word dicts of one segment after lines 123-125
ShiftWords(words, offset) ==
    [w \in DOMAIN words |->
        [words[w] EXCEPT !.start = @ + offset, !.end = @ + offset]]

\* new_segment of lines 116-125: a shallow copy with id, start and end
\* replaced; its "words" list is the list of the input segment, whose dicts
\* the loop of lines 123-125 updates in place
NewSegment(segment, id, offset) ==
    [k \in DOMAIN segment \cup {"id"} |->
        CASE k = "id"    -> id
          [] k = "start" -> segment.start + offset
          [] k = "end"   -> segment.end + offset
          [] k = "words" -> ShiftWords(segment.words, offset)
          [] OTHER       -> segment[k]]

\* the input segment as the call leaves it: only the nested word dicts, which
\* the shallow copy shares, have changed
SegmentAfter(segment, offset) ==
    IF "words" \in DOMAIN segment
    THEN [segment EXCEPT !.words = ShiftWords(segment.words, offset)]
    ELSE segment

\* lines 96-134
MergeLoop(transcript_segments, segment_lengths) ==
    [task     |-> Get(transcript_segments[1], "task", "transcribe"),
     language |-> Get(transcript_segments[1], "language", "english"),
     duration |-> Sum(segment_lengths),
     text     |-> Concat([i \in DOMAIN transcript_segments |->
                     Get(transcript_segments[i], "text", <<>>) \o << " " >>]),
     segments |-> Concat([i \in DOMAIN transcript_segments |->
                     [j \in DOMAIN SegmentsOf(transcript_segments[i]) |->
                        NewSegment(SegmentsOf(transcript_segments[i])[j],
                                   NewSegmentId(transcript_segments, i, j),
                                   MergeOffset(segment_lengths, i))]])]

\* MergeResult without the early return of lines 93-94
MergeResultNoShortcut(transcript_segments, segment_lengths) ==
    IF transcript_segments = <<>> THEN EmptyDict
    ELSE MergeLoop(transcript_segments, segment_lengths)

\* the value merge_transcript_segments returns
MergeResult(transcript_segments, segment_lengths) ==
    IF transcript_segments = <<>> THEN EmptyDict
    ELSE IF Len(transcript_segments) = 1 THEN transcript_segments[1]
    ELSE MergeLoop(transcript_segments, segment_lengths)

\* the caller's transcript_segments after the call
MergeInputsAfter(transcript_segments, segment_lengths) ==
    IF Len(transcript_segments) <= 1 THEN transcript_segments
    ELSE [i \in DOMAIN transcript_segments |->
            IF "segments" \in DOMAIN transcript_segments[i]
            THEN [transcript_segments[i] EXCEPT !.segments =
                    [j \in DOMAIN @ |->
                        SegmentAfter(@[j], MergeOffset(segment_lengths, i))]]
            ELSE transcript_segments[i]]

\* ------------------------------------------------------------------ state

VARIABLES
    DEMO_MODE,            \* module global of line 18
    duration,             \* video.duration of the asset
    segment_length,       \* the segment_length split_audio is called with
    windows,              \* (start_time, end_time) of each file split_audio returned
    audio_segments,       \* the list split_audio returned
    files,                \* temporary audio files present in the working directory
    segment_durations,    \* transcribe_video's list of lines 208-216
    transcript_segments,  \* the list of successful chunk transcripts
    responses,            \* per attempted window: the service's transcript, or NoneValue
    transcription,        \* what transcribe_video returned
    viral_clips,          \* what analyze_transcript returned
    clip_index,           \* i of the loop over viral_clips
    clips,                \* indices k whose clip the current process_video call has written
    metadata,             \* viral_clips_metadata.json: whether it exists, and its content
    given,                \* the chunk transcripts as handed to the latest merge call
    merged,               \* what the latest merge call returned
    previous,             \* what the merge call before it returned
    readable,             \* whether the asset exists and can be opened
    response,             \* the reasoning service's answer to analyze_transcript
    frame,                \* (w, h) of the source clip handed to the reprojection
    out_size,             \* (w, h) of the reprojected clip
    folder,               \* os.listdir(input_folder): the extension of each file
    asset,                \* position in folder of the file process_folder is at
    output,               \* files of the output folder, each with the asset that wrote it
    written,              \* every file ever written to the output folder, with its writer
    pc                    \* position in the program

vars == << DEMO_MODE, duration, segment_length, windows, audio_segments, files,
           segment_durations, transcript_segments, responses, transcription,
           viral_clips, clip_index, clips, metadata, given, merged, previous,
           readable, response, frame, out_size, folder, asset, output, written, pc >>

\* a Whisper segment with chunk-local stamps, with or without word stamps
LocalSegment(id, start, end, withWords) ==
    IF withWords
    THEN [id |-> id, start |-> start, end |-> end, text |-> "s",
          words |-> << [word |-> "w", start |-> start, end |-> end] >>]
    ELSE [id |-> id, start |-> start, end |-> end, text |-> "s"]

\* transcript.model_dump() of one chunk whose segments start at `starts`
ChunkTranscript(starts, idBase, seglen, withWords) ==
    [language |-> "english",
     text     |-> << "t" >>,
     segments |-> [j \in DOMAIN starts |->
                     LocalSegment(idBase + j - 1, starts[j], starts[j] + seglen,
                                  withWords)]]

\* ------------------------------------------------------- transcribe_video

\* the fixture of lines 143-197 (word stamps left out: no later stage reads them)
MockTranscript ==
    [task |-> "transcribe", language |-> "english", duration |-> 1205,
     text |-> << "mock" >>,
     segments |-> << [id |-> 0, start |-> 0,   end |-> 50,  text |-> "s0"],
                     [id |-> 1, start |-> 55,  end |-> 150, text |-> "s1"],
                     [id |-> 2, start |-> 160, end |-> 250, text |-> "s2"] >>]

\* what the transcription service may answer for one window
Responses ==
    { ChunkTranscript(<< 100 >>, 0, 100, TRUE),
      ChunkTranscript(<< 50 >>, 0, 100, FALSE) }

\* lines 140-198
DemoTranscribe ==
    /\ pc = "start"
    /\ DEMO_MODE
    /\ transcription' = MockTranscript
    /\ pc' = "transcribed"
    /\ UNCHANGED << DEMO_MODE, readable, response, frame, out_size, folder, asset,
                    output, written, duration, segment_length,
                    windows, audio_segments,
                    files, segment_durations, transcript_segments, responses,
                    viral_clips, clip_index, clips, metadata, given, merged,
                    previous >>

\* split_audio returns its list: lines 47-73, then lines 202-205 (an empty
\* list makes transcribe_video return None)
SplitAudioReturns ==
    /\ readable
    /\ ~DivisionRaises(duration, segment_length)
    /\ windows' = SplitWindows(duration, segment_length)
    /\ audio_segments' = SplitNames(duration, segment_length)
    /\ files' = files \cup Range(SplitNames(duration, segment_length))
    /\ IF SplitNames(duration, segment_length) = <<>>
       THEN /\ transcription' = NoneValue
            /\ pc' = "transcribed"
       ELSE /\ pc' = "durations"
            /\ UNCHANGED transcription

\* split_audio raises while opening the asset (k = 0) or while writing file
\* k + 1; the k files written before stay (a half-written file k + 1 is not
\* counted); it returns [] (lines 75-77) and transcribe_video None (lines
\* 203-205)
SplitAudioRaises ==
    /\ \E k \in FilesBeforeRaise(readable, duration, segment_length) :
         files' = IF k = 0 THEN files
                  ELSE files \cup
                       Range(Prefix(SplitNames(duration, segment_length), k))
    /\ windows' = <<>>
    /\ audio_segments' = <<>>
    /\ transcription' = NoneValue
    /\ pc' = "transcribed"

\* lines 200-205 with split_audio, lines 31-77
SplitAudio ==
    /\ pc = "start"
    /\ ~DEMO_MODE
    /\ \/ SplitAudioReturns
       \/ SplitAudioRaises
    /\ UNCHANGED << DEMO_MODE, readable, response, frame, out_size, folder, asset,
                    output, written, duration, segment_length,
                    segment_durations,
                    transcript_segments, responses, viral_clips, clip_index,
                    clips, metadata, given, merged, previous >>

\* lines 207-216; opening the asset again may raise, which line 255 catches
ComputeDurations ==
    /\ pc = "durations"
    /\ \/ /\ segment_durations' = SegmentDurations(Len(audio_segments), duration)
          /\ pc' = "transcribing"
          /\ UNCHANGED transcription
       \/ /\ transcription' = NoneValue
          /\ pc' = "transcribed"
          /\ UNCHANGED segment_durations
    /\ UNCHANGED << DEMO_MODE, readable, response, frame, out_size, folder, asset,
                    output, written, duration, segment_length,
                    windows, audio_segments,
                    files, transcript_segments, responses, viral_clips,
                    clip_index, clips, metadata, given, merged, previous >>

\* TranscribeSegment without the handler of lines 235-237: a failing call
\* still has its file removed (the finally of line 238) but ends the function
\* in the handler of line 255
TranscribeSegmentAborting ==
    /\ pc = "transcribing"
    /\ Len(responses) < Len(audio_segments)
    /\ \/ \E r \in Responses :
            /\ transcript_segments' = Append(transcript_segments, r)
            /\ responses' = Append(responses, r)
            /\ UNCHANGED << transcription, pc >>
       \/ /\ responses' = Append(responses, NoneValue)
          /\ transcription' = NoneValue
          /\ pc' = "transcribed"
          /\ UNCHANGED transcript_segments
    /\ files' = files \ {audio_segments[Len(responses) + 1]}
    /\ UNCHANGED << DEMO_MODE, readable, response, frame, out_size, folder, asset,
                    output, written, duration, segment_length,
                    windows, audio_segments,
                    segment_durations, viral_clips, clip_index, clips, metadata,
                    given, merged, previous >>

\* one iteration of the loop of lines 220-244 for window Len(responses) + 1:
\* the service answers with a well-formed transcript or the attempt raises;
\* the file is removed either way (os.remove itself is taken to succeed)
TranscribeSegment ==
    /\ pc = "transcribing"
    /\ Len(responses) < Len(audio_segments)
    /\ \/ \E r \in Responses :
            /\ transcript_segments' = Append(transcript_segments, r)
            /\ responses' = Append(responses, r)
       \/ /\ responses' = Append(responses, NoneValue)
          /\ UNCHANGED transcript_segments
    /\ files' = files \ {audio_segments[Len(responses) + 1]}
    /\ UNCHANGED << DEMO_MODE, readable, response, frame, out_size, folder, asset,
                    output, written, duration, segment_length,
                    windows, audio_segments,
                    segment_durations, transcription, viral_clips, clip_index,
                    clips, metadata, given, merged, previous, pc >>

\* lines 246-253
MergeAndReturn ==
    /\ pc = "transcribing"
    /\ Len(responses) = Len(audio_segments)
    /\ IF transcript_segments # <<>>
       THEN /\ transcription' = MergeResult(transcript_segments, segment_durations)
            /\ transcript_segments' =
                   MergeInputsAfter(transcript_segments, segment_durations)
       ELSE /\ transcription' = NoneValue
            /\ UNCHANGED transcript_segments
    /\ pc' = "transcribed"
    /\ UNCHANGED << DEMO_MODE, readable, response, frame, out_size, folder, asset,
                    output, written, duration, segment_length,
                    windows, audio_segments,
                    files, segment_durations, responses, viral_clips, clip_index,
                    clips, metadata, given, merged, previous >>

\* ----------------------------------------------------- analyze_transcript

\* a candidate as the reasoning service, or the fixture, returns it
Candidate(start, end) ==
    [timecodes |-> << start, end >>, text_hook |-> "hook"]

\* the fixture of lines 266-288: one clip from 16.0 to 25.0
MockClips == << Candidate(160, 250) >>

\* bool(x) of a transcript or None
Truthy(x) == x # NoneValue /\ x # EmptyDict

\* AnalyzeReply with the handler of lines 396-398 answering a content that is
\* not JSON with the fixture instead of falling through to line 403
AnalyzeReplyFixtureOnBadJson(reply) ==
    IF reply.kind = "raise" THEN <<>>
    ELSE IF Len(reply.choices) > 0
         THEN IF reply.choices[1].json
              THEN IF "clips" \in DOMAIN reply.choices[1].value
                   THEN reply.choices[1].value["clips"]
                   ELSE <<>>
              ELSE MockClips
         ELSE <<>>

\* what lines 375-403 return for one outcome of the service call: the call
\* raises, or answers with a list of choices whose first content is a JSON
\* document or not
AnalyzeReply(reply) ==
    IF reply.kind = "raise" THEN <<>>
    ELSE IF Len(reply.choices) > 0
         THEN IF reply.choices[1].json
              THEN IF "clips" \in DOMAIN reply.choices[1].value
                   THEN reply.choices[1].value["clips"]
                   ELSE <<>>
              ELSE <<>>
         ELSE <<>>

\* the value analyze_transcript returns: lines 259-403
AnalyzeResult(demo, transcript, reply) ==
    IF demo THEN MockClips ELSE AnalyzeReply(reply)

\* candidates of 25, 30 and 84 seconds, and the lists the service may return
Timecodes == { << 0, 250 >>, << 0, 300 >>, << 160, 1000 >> }

ClipLists ==
    UNION { [1..n -> {Candidate(tc[1], tc[2]) : tc \in Timecodes}] : n \in 0..MaxClips }

Replies ==
    { [kind |-> "raise"],
      [kind |-> "response", choices |-> <<>>],
      [kind |-> "response", choices |-> << [json |-> FALSE] >>],
      [kind |-> "response",
       choices |-> << [json |-> TRUE, value |-> [error |-> "none"]] >>] }
    \cup { [kind |-> "response",
            choices |-> << [json |-> TRUE, value |-> [clips |-> l]] >>] :
           l \in ClipLists }

\* ---------------------------------------------------------- process_video

\* lines 533-535: no transcript, the later stages are skipped
ReturnWithoutTranscript ==
    /\ pc = "transcribed"
    /\ ~Truthy(transcription)
    /\ pc' = "done"
    /\ UNCHANGED << DEMO_MODE, readable, response, frame, out_size, folder, asset,
                    output, written, duration, segment_length,
                    windows, audio_segments,
                    files, segment_durations, transcript_segments, responses,
                    transcription, viral_clips, clip_index, clips, metadata,
                    given, merged, previous >>

\* lines 537-540 with analyze_transcript, lines 259-403; the service is
\* called outside demo mode only
AnalyzeTranscript ==
    /\ pc = "transcribed"
    /\ Truthy(transcription)
    /\ \E reply \in IF DEMO_MODE THEN {NoReply} ELSE Replies :
         /\ response' = reply
         /\ viral_clips' = AnalyzeResult(DEMO_MODE, transcription, reply)
         /\ pc' = IF AnalyzeResult(DEMO_MODE, transcription, reply) = <<>>
                  THEN "done" ELSE "clips"
    /\ clip_index' = 1
    /\ UNCHANGED << DEMO_MODE, readable, frame, out_size, folder, asset,
                    output, written, duration, segment_length,
                    windows, audio_segments,
                    files, segment_durations, transcript_segments, responses,
                    transcription, clips, metadata, given, merged, previous >>

\* create_vertical_clips, one iteration of the loop over viral_clips (lines
\* 417-427 in demo mode, lines 498-511 otherwise): the clip is written under
\* the name viral_clip_<i><ext>, or something raises (as it must when the
\* asset cannot be opened) and the handler around the whole loop (lines
\* 430-432, 517-519) ends the function
CreateClip ==
    /\ pc = "clips"
    /\ clip_index <= Len(viral_clips)
    /\ \/ /\ readable
          /\ clips' = clips \cup {clip_index}
          /\ output' = WriteFile(output, ClipFile(clip_index, folder[asset]), asset)
          /\ written' = written \cup
                 {[path |-> ClipFile(clip_index, folder[asset]), owner |-> asset]}
          /\ clip_index' = clip_index + 1
          /\ pc' = IF clip_index = Len(viral_clips) THEN "metadata" ELSE "clips"
       \/ /\ pc' = "metadata"
          /\ UNCHANGED << clips, clip_index, output, written >>
    /\ UNCHANGED << DEMO_MODE, readable, response, frame, out_size, folder, asset,
                    duration, segment_length, windows, audio_segments,
                    files, segment_durations, transcript_segments, responses,
                    transcription, viral_clips, metadata, given, merged,
                    previous >>

\* line 546 with save_metadata, lines 523-527: the file is written, or open()
\* or json.dump() raises, which nothing between there and the caller of
\* process_folder catches
SaveMetadata ==
    /\ pc = "metadata"
    /\ \/ /\ metadata' = MetadataFile(viral_clips)
          /\ output' = WriteFile(output, MetadataPath, asset)
          /\ written' = written \cup {[path |-> MetadataPath, owner |-> asset]}
          /\ pc' = "done"
       \/ /\ pc' = "raised"
          /\ UNCHANGED << metadata, output, written >>
    /\ UNCHANGED << DEMO_MODE, readable, response, frame, out_size, folder, asset,
                    duration, segment_length, windows, audio_segments,
                    files, segment_durations, transcript_segments, responses,
                    transcription, viral_clips, clip_index, clips, given,
                    merged, previous >>

\* lines 504-508 for one candidate: the clip of the reprojected size is
\* written (nothing between the resize and the write compares the widths)
Reproject ==
    /\ pc = "reproject"
    /\ out_size' = Reprojected(frame[1], frame[2])
    /\ pc' = "reprojected"
    /\ UNCHANGED << DEMO_MODE, readable, response, frame, folder, asset,
                    output, written, duration, segment_length,
                    windows, audio_segments, files, segment_durations,
                    transcript_segments, responses, transcription, viral_clips,
                    clip_index, clips, metadata, given, merged, previous >>

\* ------------------------------------------------- the pipeline, one asset

\* durations that need 1..MaxWindows windows: each a whole number of windows,
\* or ending in a window of 300 seconds
AssetDurations ==
    { (k - 1) * SegmentLength + r : k \in 1..MaxWindows, r \in {3000, SegmentLength} }

Init ==
    /\ DEMO_MODE \in BOOLEAN
    /\ duration \in AssetDurations
    /\ segment_length = SegmentLength
    /\ readable \in BOOLEAN
    /\ windows = <<>>
    /\ audio_segments = <<>>
    /\ files = {}
    /\ segment_durations = <<>>
    /\ transcript_segments = <<>>
    /\ responses = <<>>
    /\ transcription = NoneValue
    /\ viral_clips = <<>>
    /\ clip_index = 1
    /\ clips = {}
    /\ metadata = NoMetadata
    /\ given = <<>>
    /\ merged = NoneValue
    /\ previous = NoneValue
    /\ response = NoReply
    /\ frame = <<>>
    /\ out_size = <<>>
    /\ folder = << ".mp4" >>
    /\ asset = 1
    /\ output = {}
    /\ written = {}
    /\ pc = "start"

Next ==
    \/ DemoTranscribe
    \/ SplitAudio
    \/ ComputeDurations
    \/ TranscribeSegment
    \/ MergeAndReturn
    \/ ReturnWithoutTranscript
    \/ AnalyzeTranscript
    \/ CreateClip
    \/ SaveMetadata

Spec == Init /\ [][Next]_vars

\* ------------------------------------------------ the segmenter on its own

\* split_audio with any segment_length up to MaxSegmentLength and any
\* duration up to three times as long, zero and negative values included
\* (nothing in lines 31-77 rejects them), and with its default on the assets
\* of the pipeline
InitSplit ==
    /\ DEMO_MODE = FALSE
    /\ \/ /\ segment_length \in -1..MaxSegmentLength
          /\ duration \in -1..(3 * MaxSegmentLength + 1)
       \/ /\ segment_length = SegmentLength
          /\ duration \in AssetDurations
    /\ windows = <<>>
    /\ audio_segments = <<>>
    /\ files = {}
    /\ segment_durations = <<>>
    /\ transcript_segments = <<>>
    /\ responses = <<>>
    /\ transcription = NoneValue
    /\ viral_clips = <<>>
    /\ clip_index = 1
    /\ clips = {}
    /\ metadata = NoMetadata
    /\ given = <<>>
    /\ merged = NoneValue
    /\ previous = NoneValue
    /\ readable = TRUE
    /\ response = NoReply
    /\ frame = <<>>
    /\ out_size = <<>>
    /\ folder = << ".mp4" >>
    /\ asset = 1
    /\ output = {}
    /\ written = {}
    /\ pc = "start"

\* transcribe_video recomputes the durations for its own call of split_audio,
\* which passes the default segment_length
NextSplit ==
    \/ SplitAudio
    \/ /\ segment_length = SegmentLength
       /\ ComputeDurations

SpecSplit == InitSplit /\ [][NextSplit]_vars

\* ----------------------------------------------------- the merge on its own

\* every way to give k chunks at most n segments in all, as the chunk-local
\* start times of each chunk's segments
RECURSIVE StartLists(_, _)
StartLists(k, n) ==
    IF k = 0 THEN { <<>> }
    ELSE UNION { { << s >> \o rest : rest \in StartLists(k - 1, n - Len(s)) } :
                 s \in UNION { [1..m -> 0..MaxTime] : m \in 0..n } }

\* merge_transcript_segments is called with up to MaxChunks chunk transcripts,
\* numbered from 0 or from 5 inside each chunk, with or without word stamps,
\* and one declared duration per chunk, the shortest or the longest
InitMerge ==
    /\ DEMO_MODE = FALSE
    /\ duration = 0
    /\ segment_length = SegmentLength
    /\ windows = <<>>
    /\ audio_segments = <<>>
    /\ files = {}
    /\ \E k \in 0..MaxChunks :
         /\ segment_durations \in [1..k -> {1, MaxTime}]
         /\ \E starts \in StartLists(k, MaxSegs), idBase \in {0, 5},
               withWords \in BOOLEAN :
              transcript_segments =
                  [c \in 1..k |-> ChunkTranscript(starts[c], idBase, 1, withWords)]
    /\ responses = <<>>
    /\ transcription = NoneValue
    /\ viral_clips = <<>>
    /\ clip_index = 1
    /\ clips = {}
    /\ metadata = NoMetadata
    /\ given = <<>>
    /\ merged = NoneValue
    /\ previous = NoneValue
    /\ readable = TRUE
    /\ response = NoReply
    /\ frame = <<>>
    /\ out_size = <<>>
    /\ folder = << ".mp4" >>
    /\ asset = 1
    /\ output = {}
    /\ written = {}
    /\ pc = "merge"

\* one call merged = merge_transcript_segments(transcript_segments,
\* segment_durations), lines 79-134; the same lists are then merged once more
MergeCall ==
    /\ pc \in {"merge", "merged"}
    /\ given' = transcript_segments
    /\ previous' = merged
    /\ merged' = MergeResult(transcript_segments, segment_durations)
    /\ transcript_segments' = MergeInputsAfter(transcript_segments, segment_durations)
    /\ pc' = IF pc = "merge" THEN "merged" ELSE "merged_again"
    /\ UNCHANGED << DEMO_MODE, readable, response, frame, out_size, folder, asset,
                    output, written, duration, segment_length,
                    windows, audio_segments,
                    files, segment_durations, responses, transcription,
                    viral_clips, clip_index, clips, metadata >>

NextMerge == MergeCall

SpecMerge == InitMerge /\ [][NextMerge]_vars

\* ------------------------------------------------ the reprojection on its own

\* one candidate of a source whose width and height are multiples of 120
\* pixels, up to 120 * MaxFrame
InitReproject ==
    /\ DEMO_MODE = FALSE
    /\ duration = 0
    /\ segment_length = SegmentLength
    /\ windows = <<>>
    /\ audio_segments = <<>>
    /\ files = {}
    /\ segment_durations = <<>>
    /\ transcript_segments = <<>>
    /\ responses = <<>>
    /\ transcription = NoneValue
    /\ viral_clips = <<>>
    /\ clip_index = 1
    /\ clips = {}
    /\ metadata = NoMetadata
    /\ given = <<>>
    /\ merged = NoneValue
    /\ previous = NoneValue
    /\ readable = TRUE
    /\ response = NoReply
    /\ frame \in { << 120 * a, 120 * b >> : a \in 1..MaxFrame, b \in 1..MaxFrame }
    /\ out_size = <<>>
    /\ folder = << ".mp4" >>
    /\ asset = 1
    /\ output = {}
    /\ written = {}
    /\ pc = "reproject"

NextReproject == Reproject

SpecReproject == InitReproject /\ [][NextReproject]_vars

\* ------------------------------------------------------------ process_folder

\* the extensions of the files found in the input folder
Extensions == { ".mp4", ".MOV", ".txt" }

\* str.lower() on an extension
Lower(ext) == IF ext = ".MOV" THEN ".mov" ELSE ext

\* line 573
IsVideo(ext) == Lower(ext) \in { ".mov", ".mp4" }

\* a folder of up to MaxAssets files; nothing has been written yet
InitFolder ==
    /\ DEMO_MODE \in BOOLEAN
    /\ duration = 0
    /\ segment_length = SegmentLength
    /\ windows = <<>>
    /\ audio_segments = <<>>
    /\ files = {}
    /\ segment_durations = <<>>
    /\ transcript_segments = <<>>
    /\ responses = <<>>
    /\ transcription = NoneValue
    /\ viral_clips = <<>>
    /\ clip_index = 1
    /\ clips = {}
    /\ metadata = NoMetadata
    /\ given = <<>>
    /\ merged = NoneValue
    /\ previous = NoneValue
    /\ readable = TRUE
    /\ response = NoReply
    /\ frame = <<>>
    /\ out_size = <<>>
    /\ folder \in UNION { [1..n -> Extensions] : n \in 1..MaxAssets }
    /\ asset = 1
    /\ output = {}
    /\ written = {}
    /\ pc = "listing"

\* lines 572-573 and 577-578: a file that is not a .mov or .mp4 is skipped
SkipFile ==
    /\ pc = "listing"
    /\ asset <= Len(folder)
    /\ ~IsVideo(folder[asset])
    /\ asset' = asset + 1
    /\ UNCHANGED << DEMO_MODE, readable, response, frame, out_size, folder,
                    output, written, duration, segment_length,
                    windows, audio_segments, files, segment_durations,
                    transcript_segments, responses, transcription, viral_clips,
                    clip_index, clips, metadata, given, merged, previous, pc >>

\* lines 572-575: process_video is called on the next .mov or .mp4, an asset
\* of 300 seconds that can be read or not, with locals of its own; the
\* working directory and the output folder are as the calls before left them
ProcessVideoCall ==
    /\ pc = "listing"
    /\ asset <= Len(folder)
    /\ IsVideo(folder[asset])
    /\ duration' = 3000
    /\ readable' \in BOOLEAN
    /\ windows' = <<>>
    /\ audio_segments' = <<>>
    /\ segment_durations' = <<>>
    /\ transcript_segments' = <<>>
    /\ responses' = <<>>
    /\ transcription' = NoneValue
    /\ response' = NoReply
    /\ viral_clips' = <<>>
    /\ clip_index' = 1
    /\ clips' = {}
    /\ pc' = "start"
    /\ UNCHANGED << DEMO_MODE, frame, out_size, folder, asset, output, written,
                    segment_length, files, metadata, given, merged, previous >>

\* lines 575-576: process_video has returned, the loop goes on to the next file
ProcessVideoReturn ==
    /\ pc = "done"
    /\ asset' = asset + 1
    /\ pc' = "listing"
    /\ UNCHANGED << DEMO_MODE, readable, response, frame, out_size, folder,
                    output, written, duration, segment_length,
                    windows, audio_segments, files, segment_durations,
                    transcript_segments, responses, transcription, viral_clips,
                    clip_index, clips, metadata, given, merged, previous >>

\* process_folder on a directory, lines 563-579, with the steps of
\* process_video for each asset
NextFolder ==
    \/ SkipFile
    \/ ProcessVideoCall
    \/ ProcessVideoReturn
    \/ DemoTranscribe
    \/ SplitAudio
    \/ ComputeDurations
    \/ TranscribeSegment
    \/ MergeAndReturn
    \/ ReturnWithoutTranscript
    \/ AnalyzeTranscript
    \/ CreateClip
    \/ SaveMetadata

SpecFolder == InitFolder /\ [][NextFolder]_vars

\* --------------------------------------------------- the selection on its own

\* the transcripts analyze_transcript is called with: the two dicts of
\* test_error_handling, the empty dict, the fixture and the service's answers
Transcripts ==
    { [invalid |-> "data"], [segments |-> <<>>], EmptyDict, MockTranscript }
    \cup Responses

InitAnalyze ==
    /\ DEMO_MODE \in BOOLEAN
    /\ duration = 0
    /\ segment_length = SegmentLength
    /\ windows = <<>>
    /\ audio_segments = <<>>
    /\ files = {}
    /\ segment_durations = <<>>
    /\ transcript_segments = <<>>
    /\ responses = <<>>
    /\ transcription \in Transcripts
    /\ viral_clips = <<>>
    /\ clip_index = 1
    /\ clips = {}
    /\ metadata = NoMetadata
    /\ given = <<>>
    /\ merged = NoneValue
    /\ previous = NoneValue
    /\ readable = TRUE
    /\ response = NoReply
    /\ frame = <<>>
    /\ out_size = <<>>
    /\ folder = << ".mp4" >>
    /\ asset = 1
    /\ output = {}
    /\ written = {}
    /\ pc = "analyze"

\* one call viral_clips = analyze_transcript(transcription), lines 259-403
AnalyzeCall ==
    /\ pc = "analyze"
    /\ \E reply \in IF DEMO_MODE THEN {NoReply} ELSE Replies :
         /\ response' = reply
         /\ viral_clips' = AnalyzeResult(DEMO_MODE, transcription, reply)
    /\ pc' = "analyzed"
    /\ UNCHANGED << DEMO_MODE, readable, frame, out_size, folder, asset,
                    output, written, duration, segment_length,
                    windows, audio_segments, files, segment_durations,
                    transcript_segments, responses, transcription, clip_index,
                    clips, metadata, given, merged, previous >>

NextAnalyze == AnalyzeCall

SpecAnalyze == InitAnalyze /\ [][NextAnalyze]_vars

\* ================================================================ claims

\* transcribe_video has returned
Returned == pc \notin {"start", "durations", "transcribing"}

\* the windows whose transcription succeeded
Succeeded == {w \in DOMAIN responses : responses[w] # NoneValue}

\* the sum of the nominal durations of the windows before window w
NominalOffset(w) ==
    Sum([k \in 1..(w - 1) |-> windows[k].end - windows[k].start])

\* C1: when transcribe_video returns a transcript, every segment of every
\* window that was transcribed successfully is in it with start and end equal
\* to the chunk-local value plus the nominal durations of all earlier windows,
\* failed or not.
C1_FailedWindowStillAdvancesOffset ==
    (Returned /\ ~DEMO_MODE /\ Truthy(transcription)) =>
        \A w \in Succeeded :
            \A j \in DOMAIN responses[w].segments :
                \E s \in Range(SegmentsOf(transcription)) :
                    /\ s.start = responses[w].segments[j].start + NominalOffset(w)
                    /\ s.end = responses[w].segments[j].end + NominalOffset(w)

\* C2: no candidate shorter than 30 seconds is in the list analyze_transcript
\* returned.
C2_NoCandidateUnderThirtySeconds ==
    \A k \in DOMAIN viral_clips :
        viral_clips[k].timecodes[2] - viral_clips[k].timecodes[1] >= MinHighlight

\* C3: whenever transcribe_video has returned, no temporary audio file of
\* split_audio is left.
C3_TempFilesRemovedOnReturn == Returned => files = {}

\* lengths of the windows, in order
WindowLengths == [k \in DOMAIN windows |-> windows[k].end - windows[k].start]

\* C4: for a duration and a segment_length above zero,
\* the windows split_audio produced are as many as the files, in index
\* order, start at 0, are contiguous and non-overlapping, are each at most
\* segment_length long and sum to the duration of the asset; there are
\* ceil(duration / segment_length) of them; and the durations transcribe_video
\* recomputes are the lengths of these windows.
C4_WindowsPartitionDuration ==
    (duration > 0 /\ segment_length > 0 /\ audio_segments # <<>>) =>
        /\ Len(windows) = Len(audio_segments)
        /\ Len(windows) = CeilDiv(duration, segment_length)
        /\ Len(windows) > 1 =>
              \A k \in DOMAIN windows : audio_segments[k] = TempSegment(k - 1)
        /\ windows[1].start = 0
        /\ \A k \in DOMAIN windows :
              /\ windows[k].start <= windows[k].end
              /\ windows[k].end - windows[k].start <= segment_length
              /\ k > 1 => windows[k].start = windows[k - 1].end
        /\ Sum(WindowLengths) = duration
        /\ pc = "transcribing" => segment_durations = WindowLengths

\* C4 witness: the asset of 1200 seconds is split into 900 + 300 seconds and
\* the durations have been recomputed.
C4_Witness ==
    /\ pc = "transcribing"
    /\ duration = 12000
    /\ Len(audio_segments) = 2
    /\ segment_durations = << 9000, 3000 >>

\* a merge call has returned
Merged == pc \in {"merged", "merged_again"}

\* d0 + ... + d(i-1) for the chunk at position i (1-based)
DeclaredBefore(i) == Sum(SubSeq(segment_durations, 1, i - 1))

\* position in the result of segment j of chunk i
PositionOf(i, j) ==
    Sum([k \in 1..(i - 1) |-> Len(given[k].segments)]) + j

\* C5: after a merge call, every segment of chunk i, and every word stamp in
\* it, is in the result with start and end equal to the value handed in plus
\* d0 + ... + d(i-1), no more and no less; durations [900, 300] with local
\* segments {10,20} and {5,15} give {10,20} and {905,915}.
C5_ShiftedByDeclaredDurationsBefore ==
    /\ Merged =>
         \A i \in DOMAIN given : \A j \in DOMAIN given[i].segments :
            LET old == given[i].segments[j]
                new == merged.segments[PositionOf(i, j)]
            IN /\ new.start = old.start + DeclaredBefore(i)
               /\ new.end = old.end + DeclaredBefore(i)
               /\ "words" \in DOMAIN old =>
                     /\ "words" \in DOMAIN new
                     /\ Len(new.words) = Len(old.words)
                     /\ \A w \in DOMAIN old.words :
                           /\ new.words[w].start = old.words[w].start + DeclaredBefore(i)
                           /\ new.words[w].end = old.words[w].end + DeclaredBefore(i)
    /\ LET r == MergeResult(<< ChunkTranscript(<< 100 >>, 0, 100, TRUE),
                               ChunkTranscript(<< 50 >>, 0, 100, TRUE) >>,
                            << 9000, 3000 >>)
       IN /\ Len(r.segments) = 2
          /\ << r.segments[1].start, r.segments[1].end >> = << 100, 200 >>
          /\ << r.segments[2].start, r.segments[2].end >> = << 9050, 9150 >>

\* C5 witness: a third chunk whose segment has word stamps was shifted by the
\* declared durations of the two chunks before it, which differ.
C5_Witness ==
    /\ pc = "merged"
    /\ Len(given) = 3
    /\ segment_durations[1] # segment_durations[2]
    /\ Len(given[3].segments) = 1
    /\ "words" \in DOMAIN given[3].segments[1]
    /\ merged.segments[Len(merged.segments)].words[1].start =
          given[3].segments[1].words[1].start
             + segment_durations[1] + segment_durations[2]

\* the ids of the result are 0..N-1 in sequence order
IdsSequential ==
    \A p \in DOMAIN SegmentsOf(merged) : merged.segments[p].id = p - 1

\* C6 as stated: after a merge of any number of chunks with any chunk-local
\* ids, the ids of the result are 0..N-1 in sequence order.
C6_IdsSequentialForAnyInput == Merged => IdsSequential

\* C6 as amended: after a merge of two or more chunks the ids of the result
\* are 0..N-1 in sequence order; after a merge of exactly one chunk they are
\* that chunk's own ids.
C6_IdsSequentialForSeveralChunks ==
    Merged =>
        /\ Len(given) >= 2 => IdsSequential
        /\ Len(given) = 1 =>
              /\ Len(SegmentsOf(merged)) = Len(given[1].segments)
              /\ \A p \in DOMAIN given[1].segments :
                    merged.segments[p].id = given[1].segments[p].id

\* C6 witness: two chunks with one segment each, both numbered 5 by their
\* chunk, were renumbered 0 and 1.
C6_Witness ==
    /\ pc = "merged"
    /\ Len(given) = 2
    /\ Len(given[1].segments) = 1 /\ given[1].segments[1].id = 5
    /\ Len(given[2].segments) = 1 /\ given[2].segments[1].id = 5
    /\ merged.segments[1].id = 0 /\ merged.segments[2].id = 1

\* C7: a merge of zero chunks returns the empty transcript; a merge of exactly
\* one chunk returns that chunk as it was handed in, whatever its declared
\* duration, and leaves it as it was.
C7_ZeroOrOneChunkUnchanged ==
    Merged =>
        /\ Len(given) = 0 => merged = EmptyDict
        /\ Len(given) = 1 => merged = given[1] /\ transcript_segments = given

\* C7 witness: one chunk of two segments with word stamps, numbered from 5,
\* with a declared duration of 2, was merged.
C7_Witness ==
    /\ pc = "merged"
    /\ Len(given) = 1
    /\ segment_durations = << 2 >>
    /\ Len(given[1].segments) = 2
    /\ given[1].segments[1].id = 5
    /\ "words" \in DOMAIN given[1].segments[1]
    /\ merged = given[1]

\* the segments of transcript t are sorted by start
SortedByStart(t) ==
    \A p \in DOMAIN SegmentsOf(t) :
        p > 1 => SegmentsOf(t)[p - 1].start <= SegmentsOf(t)[p].start

\* every chunk handed in is sorted by start
ChunksSorted == \A i \in DOMAIN given : SortedByStart(given[i])

\* every segment handed in starts inside the declared duration of its chunk,
\* and no declared duration is negative
ChunksInsideDeclared ==
    /\ \A i \in DOMAIN segment_durations : segment_durations[i] >= 0
    /\ \A i \in DOMAIN given : \A j \in DOMAIN given[i].segments :
          /\ 0 <= given[i].segments[j].start
          /\ given[i].segments[j].start <= segment_durations[i]

\* C8 as stated: the result is sorted by start whenever every chunk handed in
\* is.
C8_SortedWheneverChunksSorted ==
    (Merged /\ ChunksSorted) => SortedByStart(merged)

\* C8 as amended: the result is sorted by start whenever every chunk handed in
\* is and every segment starts inside the declared duration of its chunk.
C8_SortedWhenInsideDeclared ==
    (Merged /\ ChunksSorted /\ ChunksInsideDeclared) => SortedByStart(merged)

\* C8 witness: the second chunk's segment starts, chunk-locally, before the
\* first chunk's, and follows it in the result.
C8_Witness ==
    /\ pc = "merged"
    /\ Len(given) = 2
    /\ ChunksSorted /\ ChunksInsideDeclared
    /\ Len(given[1].segments) = 1 /\ Len(given[2].segments) = 1
    /\ given[2].segments[1].start < given[1].segments[1].start
    /\ merged.segments[1].start < merged.segments[2].start

\* C9: when transcribe_video has returned, it returned a transcript if any
\* window was transcribed successfully, and, outside demo mode, None if none
\* was; once the loop over the windows was entered every window was
\* attempted, whichever failed; and after None no later stage has run.
C9_NoneExactlyWhenNoWindowSucceeded ==
    Returned =>
        /\ Succeeded # {} => Truthy(transcription)
        /\ (~DEMO_MODE /\ Succeeded = {}) => transcription = NoneValue
        /\ segment_durations # <<>> => Len(responses) = Len(audio_segments)
        /\ transcription = NoneValue =>
              /\ pc = "transcribed" \/ pc = "done"
              /\ viral_clips = <<>> /\ clips = {} /\ metadata = NoMetadata

\* C9 witness: of three windows the first and the third failed, the second
\* succeeded, and the pipeline went on to a clip.
C9_Witness ==
    /\ Len(responses) = 3
    /\ responses[1] = NoneValue
    /\ responses[2] # NoneValue
    /\ responses[3] = NoneValue
    /\ Truthy(transcription)
    /\ clips # {}

\* create_vertical_clips has returned
ClipsReturned == pc = "metadata" \/ (pc = "done" /\ metadata.exists)

\* C10: when create_vertical_clips has returned, every candidate other than
\* the one whose clip failed (the one at clip_index, if any) has its clip.
C10_FailureSparesOtherCandidates ==
    ClipsReturned =>
        \A k \in DOMAIN viral_clips : k # clip_index => k \in clips

\* C11: every clip the reprojection writes is exactly TargetWidth x
\* TargetHeight (1080 x 1920): a source whose scaled width
\* w * 1920 / h is below 1080 yields no clip, only a geometry error.
C11_ClipIsExactlyTargetSize ==
    pc = "reprojected" => out_size = << TargetWidth, TargetHeight >>

\* the service call raised, or answered with no choices, with a content that
\* is not JSON, or with a JSON document without the key 'clips'
FailedReply(r) ==
    \/ r.kind = "raise"
    \/ /\ r.kind = "response"
       /\ \/ Len(r.choices) = 0
          \/ ~r.choices[1].json
          \/ "clips" \notin DOMAIN r.choices[1].value

\* C12: once analyze_transcript has been answered by a failed service call,
\* it has returned the empty list and process_video has returned normally
\* for the asset, with no clip and no metadata file written.
C12_FailedReplyGivesEmptyList ==
    FailedReply(response) =>
        /\ viral_clips = <<>>
        /\ pc = "done"
        /\ clips = {}
        /\ output = {}
        /\ ~metadata.exists

\* C12 witness: the service answered a transcript of two merged windows with
\* a content that is not JSON, and process_video is done.
C12_Witness ==
    /\ response = [kind |-> "response", choices |-> << [json |-> FALSE] >>]
    /\ Len(transcript_segments) = 2
    /\ Truthy(transcription)
    /\ pc = "done"

\* C13: called with a transcript that has no segments (no 'segments' key, or
\* an empty list), analyze_transcript returns the empty list, in demo mode
\* and outside it, whatever the service answers.
C13_NoSegmentsGivesEmptyList ==
    (pc = "analyzed" /\ SegmentsOf(transcription) = <<>>) => viral_clips = <<>>

\* C14: for an asset that does not exist or cannot be read, transcribe_video
\* returns None, in demo mode and outside it, and process_video runs no
\* selection, writes no clip and no metadata file.
C14_UnreadableAssetGivesNone ==
    (~readable /\ Returned) =>
        /\ transcription = NoneValue
        /\ pc \in {"transcribed", "done"}
        /\ response = NoReply
        /\ viral_clips = <<>>
        /\ output = {}
        /\ ~metadata.exists

\* C15: called with a duration or a segment_length that is zero or negative,
\* split_audio fails: it returns no window and has written no audio file.
C15_InvalidInputWritesNothing ==
    (pc # "start" /\ (duration <= 0 \/ segment_length <= 0)) =>
        /\ windows = <<>>
        /\ audio_segments = <<>>
        /\ files = {}

\* C16: a file written to the output folder is never replaced: every clip
\* and every metadata file that a process_video call of this run wrote is
\* still in the folder as that call wrote it.
C16_WrittenFilesAreNeverReplaced == written \subseteq output

\* C17: when process_folder stops on an exception, no .mov or .mp4 of the
\* folder is left that process_video was not called on.
C17_FailureLeavesNoVideoUnprocessed ==
    pc = "raised" => \A i \in DOMAIN folder : IsVideo(folder[i]) => i <= asset

\* C18: a merge leaves the chunk transcripts it was handed as they were, word
\* stamps included, and merging the same lists a second time returns a
\* transcript equal to the first.
C18_MergeLeavesInputsUnchanged ==
    /\ Merged => transcript_segments = given
    /\ pc = "merged_again" => merged = previous

\* C19: once process_video has written the metadata file, the output folder
\* holds a clip file viral_clip_k for every entry k of that metadata.
C19_EveryMetadataEntryHasItsClip ==
    metadata.exists =>
        \A k \in DOMAIN metadata.content :
            \E f \in output : f.path = ClipFile(k, folder[asset])

====
